---- MODULE Spec2Model ----
(***************************************************************************)
(* Form-with-AI frontend: the conversational form-filling client.          *)
(*                                                                         *)
(* The module models the root controller (App.jsx, both revisions kept in  *)
(* the file), the chat panel (ChatSide) and the browser collaborators it   *)
(* drives (fetch, Audio, speechSynthesis, SpeechRecognition, setTimeout),  *)
(* the form builder and the form manager (FormBuilder.jsx,                 *)
(* FormManager.jsx), and the recording client over MediaRecorder.          *)
(* JavaScript strings are sequences of one-character strings, JavaScript   *)
(* values are tagged records, and a closure is the record of the state     *)
(* values it captured at the render that created it.                       *)
(***************************************************************************)
EXTENDS Integers, Sequences, FiniteSets, TLC

(***************************************************************************)
(* JavaScript strings and values                                           *)
(***************************************************************************)

sEmpty == << >>
sSpace == << " " >>
sAl == << "A", "l" >>
sAlPad == << " ", "A", "l", " " >>
sHi == << "h", "i" >>
sObj == << "[", "o", "b", "j", "e", "c", "t", " ", "O", "b", "j", "e", "c", "t", "]" >>
sObjPad == << " " >> \o sObj
sTen == << "1", "2", "3", "4", "5", "6", "7", "8", "9", "0" >>
sDob == << "2", "0", "0", "1", "-", "0", "2", "-", "0", "3" >>

WhiteSpace == { " " }
Digits == { "0", "1", "2", "3", "4", "5", "6", "7", "8", "9" }

\* String.prototype.trim
RECURSIVE TrimLeft(_)
TrimLeft(s) ==
  IF s # << >> /\ Head(s) \in WhiteSpace THEN TrimLeft(Tail(s)) ELSE s

RECURSIVE TrimRight(_)
TrimRight(s) ==
  IF s # << >> /\ s[Len(s)] \in WhiteSpace
  THEN TrimRight(SubSeq(s, 1, Len(s) - 1))
  ELSE s

Trim(s) == TrimRight(TrimLeft(s))

\* String.prototype.includes, for a one-character needle
Includes(s, c) == \E i \in 1..Len(s) : s[i] = c

\* s.replace(/\D/g, "")
RECURSIVE DigitsOf(_)
DigitsOf(s) ==
  IF s = << >> THEN << >>
  ELSE IF Head(s) \in Digits THEN << Head(s) >> \o DigitsOf(Tail(s))
  ELSE DigitsOf(Tail(s))

\* JavaScript values: every value carries its tag t.  An object keeps its
\* own properties as a sequence of <<key, value>> pairs in insertion order.
Undefined == [t |-> "undefined"]
Null == [t |-> "null"]
Bool(b) == [t |-> "boolean", b |-> b]
Str(s) == [t |-> "string", s |-> s]
Num(n) == [t |-> "number", n |-> n]
Arr(es) == [t |-> "array", p |-> es]
Obj(es) == [t |-> "object", p |-> es]

IsStr(v) == v.t = "string"

TypeOf(v) ==
  CASE v.t = "string" -> "string"
    [] v.t = "number" -> "number"
    [] v.t = "undefined" -> "undefined"
    [] v.t = "boolean" -> "boolean"
    [] OTHER -> "object"

\* ToBoolean
Truthy(v) ==
  CASE v.t = "string" -> v.s # << >>
    [] v.t = "number" -> v.n # 0
    [] v.t = "undefined" -> FALSE
    [] v.t = "null" -> FALSE
    [] v.t = "boolean" -> v.b
    [] OTHER -> TRUE

\* a || b
JsOr(a, b) == IF Truthy(a) THEN a ELSE b

\* v.k throws a TypeError on null and undefined
PropThrows(v) == v.t \in { "null", "undefined" }

HasKey(v, k) == v.t = "object" /\ \E i \in 1..Len(v.p) : v.p[i][1] = k

\* v.k where it does not throw: undefined unless v is an object owning k
Prop(v, k) ==
  IF HasKey(v, k)
  THEN LET i == CHOOSE j \in 1..Len(v.p) : v.p[j][1] = k IN v.p[i][2]
  ELSE Undefined

\* Object.entries(v): the own properties of an object in insertion order;
\* an array's entries are keyed by index, which is no field name
Entries(v) ==
  CASE v.t = "object" -> v.p
    [] v.t = "array" -> [i \in 1..Len(v.p) |-> << "#index", v.p[i] >>]
    [] OTHER -> << >>

sCollected == << "c", "o", "l", "l", "e", "c", "t", "e", "d" >>
sPending == << "p", "e", "n", "d", "i", "n", "g" >>

\* v === "collected"
IsCollected(v) == IsStr(v) /\ v.s = sCollected

(***************************************************************************)
(* Form-update merge                                                       *)
(***************************************************************************)

LegacyFields == { "fullName", "email", "phone", "dob" }

EmptyLegacyForm ==
  [fullName |-> Str(sEmpty), email |-> Str(sEmpty),
   phone |-> Str(sEmpty), dob |-> Str(sEmpty)]

\* fieldMappings of updateLegacyFormData: backend key -> form field
MappedKeys == { "full_name", "fullName", "email", "phone", "dob" }

fieldMappings(key) == IF key = "full_name" THEN "fullName" ELSE key

\* the value updateLegacyFormData reads out of one reported entry
ExtractValue(fieldData) ==
  IF TypeOf(fieldData) = "string" THEN fieldData
  ELSE IF Truthy(fieldData) /\ TypeOf(fieldData) = "object"
  THEN JsOr(JsOr(JsOr(JsOr(Prop(fieldData, "value"),
                           Prop(fieldData, "collected")),
                      Prop(fieldData, "data")),
                 IF IsCollected(Prop(fieldData, "status"))
                 THEN Prop(fieldData, "value")
                 ELSE Str(sEmpty)),
            Str(sEmpty))
  ELSE Str(sEmpty)

\* an acceptance test that lets the empty and the blank string through
AcceptAnyString(value) == TypeOf(value) = "string" /\ value.s # sObj

\* the acceptance test of updateLegacyFormData
AcceptValue(value) ==
  /\ Truthy(value)
  /\ TypeOf(value) = "string"
  /\ Trim(value.s) # sEmpty
  /\ value.s # sObj

\* the value stored for an accepted entry
CleanValue(value) == Str(Trim(value.s))

\* an iteration that starts from an empty form instead of { ...prev }
MergeEntryFresh(form, key, fieldData) ==
  IF key \in MappedKeys /\ AcceptValue(ExtractValue(fieldData))
  THEN [EmptyLegacyForm EXCEPT
          ![fieldMappings(key)] = CleanValue(ExtractValue(fieldData))]
  ELSE form

\* one iteration of the forEach over Object.entries(updates)
MergeEntry(form, key, fieldData) ==
  IF key \in MappedKeys /\ AcceptValue(ExtractValue(fieldData))
  THEN [form EXCEPT ![fieldMappings(key)] = CleanValue(ExtractValue(fieldData))]
  ELSE form

RECURSIVE MergeEntries(_, _)
MergeEntries(form, entries) ==
  IF entries = << >> THEN form
  ELSE MergeEntries(MergeEntry(form, entries[1][1], entries[1][2]),
                    Tail(entries))

\* FORMAT PHONE NUMBER: ten digits and no "(" become (ddd) ddd-dddd
FormatPhone(form) ==
  IF /\ Truthy(form.phone)
     /\ ~Includes(form.phone.s, "(")
     /\ Len(DigitsOf(form.phone.s)) = 10
  THEN LET d == DigitsOf(form.phone.s)
       IN [form EXCEPT !.phone =
             Str(<< "(" >> \o SubSeq(d, 1, 3) \o << ")", " " >> \o
                 SubSeq(d, 4, 6) \o << "-" >> \o SubSeq(d, 7, 10))]
  ELSE form

\* updateLegacyFormData(updates) applied to the form prev
updateLegacyFormData(prev, updates) ==
  IF ~Truthy(updates) \/ TypeOf(updates) # "object" THEN prev
  ELSE FormatPhone(MergeEntries(prev, Entries(updates)))

\* the update handling of backendChat in the first revision of App.jsx
backendChatUpdates(prev, updates) ==
  [fullName |-> JsOr(Prop(updates, "full_name"), prev.fullName),
   email |-> JsOr(Prop(updates, "email"), prev.email),
   phone |-> JsOr(Prop(updates, "phone"), prev.phone),
   dob |-> JsOr(Prop(updates, "dob"), prev.dob)]

\* dynamicBackendChat: the entries of data.form_summary.fields
SummaryFields(data) ==
  IF Truthy(data.form_summary) /\ Truthy(Prop(data.form_summary, "fields"))
  THEN Entries(Prop(data.form_summary, "fields"))
  ELSE << >>

\* fieldInfo.value is read of every entry: a null entry throws a TypeError
\* out of the forEach, before setFormData is reached
SummaryThrows(entries) == \E i \in 1..Len(entries) : PropThrows(entries[i][2])

CollectedInfo(fieldInfo) ==
  Truthy(Prop(fieldInfo, "value")) /\ IsCollected(Prop(fieldInfo, "status"))

\* setFormData(prev => ({ ...prev, ...newFormData })); a form is a function
\* from the field names it holds to their values
RECURSIVE MergeSummary(_, _)
MergeSummary(form, entries) ==
  IF entries = << >> THEN form
  ELSE LET k == entries[1][1]
           info == entries[1][2]
           next == IF CollectedInfo(info)
                   THEN [f \in DOMAIN form \cup { k } |->
                           IF f = k THEN Prop(info, "value") ELSE form[f]]
                   ELSE form
       IN MergeSummary(next, Tail(entries))

\* { ...v, [k]: x } for an object v
RECURSIVE SetEntries(_, _, _)
SetEntries(es, k, x) ==
  IF es = << >> THEN << << k, x >> >>
  ELSE IF es[1][1] = k THEN << << k, x >> >> \o Tail(es)
  ELSE << es[1] >> \o SetEntries(Tail(es), k, x)

SetProp(v, k, x) == Obj(SetEntries(v.p, k, x))

(***************************************************************************)
(* State                                                                   *)
(***************************************************************************)

VARIABLES
  messages,         \* useState([]): the chat, one tag per message
  inputText,        \* useState("")
  status,           \* useState("idle")
  pendingAudio,     \* useState(null)
  currentForm,      \* useState(null): the id of the selected form
  formData,         \* useState({}): the dynamic form's data
  showFormManager,  \* useState(false)
  isLegacyMode,     \* useState(true)
  sessionId,        \* useState(() => `legacy_...`)
  legacyFormData,   \* useState({fullName: "", email: "", phone: "", dob: ""})
  sessionStatus,    \* useState({completed: false, ...})
  initialized,      \* useRef(false)
  formDataV1,       \* formData of the first revision of App.jsx
  requests,         \* fetch calls in flight, each with the closure awaiting it
  timers,           \* setTimeout callbacks not yet run
  audios,           \* Audio elements whose play() was called and has not ended
  utterances,       \* the speechSynthesis queue; its head is being spoken
  recognizers,      \* SpeechRecognition objects started and not yet ended
  nextId,           \* source of fresh identities (Date.now()/Math.random())
  ev,               \* history: the last handler run and what it started from
  quiet,            \* history: a request failed and no user action followed
  fields,           \* FormBuilder: useState([]), the fields of the schema
  formTitle,        \* FormBuilder: useState('')
  isSubmitting,     \* FormBuilder: useState(false)
  forms,            \* FormManager: useState([]), the ids of the forms listed
  loading,          \* FormManager: useState(true)
  showFormBuilder,  \* FormManager: useState(false)
  activeTab,        \* FormManager: useState('forms')
  backendForms,     \* the forms the backend holds
  recording,        \* recording client: let recording = false
  recorder,         \* recording client: let recorder (0 while undefined)
  btnRecDisabled,   \* recording client: btnRec.disabled
  micGrants,        \* getUserMedia calls whose permission is pending
  mediaRecorders    \* MediaRecorder objects created, each with its stream

appVars ==
  << messages, inputText, status, pendingAudio, currentForm, formData,
     showFormManager, isLegacyMode, sessionId, legacyFormData, sessionStatus,
     initialized, formDataV1 >>

envVars == << requests, timers, audios, utterances, recognizers, nextId >>

\* the state of the FormBuilder component
builderVars == << fields, formTitle, isSubmitting >>

\* the state of the FormManager component, and the backend's store of forms
managerVars == << forms, loading, showFormBuilder, activeTab, backendForms >>

\* the state of the recording client and of the media objects it created
recVars == << recording, recorder, btnRecDisabled, micGrants, mediaRecorders >>

\* the components a handler of App does not touch
componentVars == << builderVars, managerVars, recVars >>

vars == << appVars, envVars, ev, quiet, builderVars, managerVars, recVars >>

\* bounds of the model
MaxIds == 4
MaxEntries == 2

NoForm == "null"
Forms == { "A", "B" }

InitialSessionStatus ==
  Obj(<< << "completed", Bool(FALSE) >>, << "current_field", Null >>,
         << "frustration_level", Num(0) >> >>)

\* what a closure created at a render captured of the state
CurEnv == [sid |-> sessionId, form |-> currentForm, legacy |-> isLegacyMode]

\* history record of a handler; "-" for one the properties do not single out
Ev(op) == [op |-> op]

\* history record of a handler that consumed the backend answer data
EvData(op, data, threw) ==
  [op |-> op, data |-> data, threw |-> threw, messages |-> messages,
   status |-> status, legacyFormData |-> legacyFormData,
   formData |-> formData, formDataV1 |-> formDataV1,
   sessionStatus |-> sessionStatus]

\* history of a step that handles the answer to the request r
EvAnswer(op, data, threw, r) ==
  [op |-> op, data |-> data, threw |-> threw, messages |-> messages,
   status |-> status, legacyFormData |-> legacyFormData,
   formData |-> formData, formDataV1 |-> formDataV1,
   sessionStatus |-> sessionStatus, id |-> r.id]

InitApp ==
  /\ messages = << >>
  /\ inputText = sEmpty
  /\ status = "idle"
  /\ pendingAudio = Null
  /\ currentForm = NoForm
  /\ formData = << >>
  /\ showFormManager = FALSE
  /\ isLegacyMode = TRUE
  /\ sessionId = 0
  /\ legacyFormData = EmptyLegacyForm
  /\ sessionStatus = InitialSessionStatus
  /\ initialized = FALSE
  /\ formDataV1 = EmptyLegacyForm

InitEnv ==
  /\ requests = { }
  /\ timers = { }
  /\ audios = { }
  /\ utterances = << >>
  /\ recognizers = { }
  /\ nextId = 1

\* FormBuilder as mounted
InitBuilder == fields = << >> /\ formTitle = sEmpty /\ isSubmitting = FALSE

\* FormManager as mounted, before loadForms has answered
InitManager ==
  /\ forms = << >>
  /\ loading = TRUE
  /\ showFormBuilder = FALSE
  /\ activeTab = "forms"
  /\ backendForms = Forms

\* the recording client as loaded
InitRec ==
  /\ recording = FALSE
  /\ recorder = 0
  /\ btnRecDisabled = FALSE
  /\ micGrants = { }
  /\ mediaRecorders = { }

Init ==
  /\ InitApp /\ InitEnv /\ InitBuilder /\ InitManager /\ InitRec
  /\ ev = Ev("init") /\ quiet = FALSE

(***************************************************************************)
(* Chat turns: legacyBackendChat, dynamicBackendChat                       *)
(***************************************************************************)

HasIds(n) == nextId + n - 1 <= MaxIds

ChatFn(env) ==
  IF env.legacy THEN "legacyBackendChat" ELSE "dynamicBackendChat"

\* dynamicBackendChat returns at once when its closure holds no form
Issues(fn, env) == fn = "legacyBackendChat" \/ env.form # NoForm

\* the fetch of a chat turn: body {session_id, form_id, message}
ChatRequest(fn, env, msg) ==
  [id |-> nextId,
   url |-> IF fn = "legacyBackendChat" THEN "/chat" ELSE "/dynamic-chat",
   sid |-> env.sid,
   form |-> IF fn = "legacyBackendChat" THEN NoForm ELSE env.form,
   msg |-> msg, fn |-> fn, env |-> env]

\* a fetch other than a chat turn, awaited by the handler fn
PlainRequest(fn, url, env) ==
  [id |-> nextId, url |-> url, sid |-> env.sid, form |-> env.form,
   msg |-> sEmpty, fn |-> fn, env |-> env]

ChatFns == { "legacyBackendChat", "dynamicBackendChat" }

\* fn(msg) run in the closure env by a handler that leaves the status st:
\* setStatus("waiting...") and the fetch
CallChat(fn, env, msg, st) ==
  IF Issues(fn, env)
  THEN /\ HasIds(1)
       /\ status' = "waiting..."
       /\ requests' = requests \cup { ChatRequest(fn, env, msg) }
       /\ nextId' = nextId + 1
  ELSE /\ status' = st
       /\ UNCHANGED << requests, nextId >>

\* an effect without the initialized guard: it starts a conversation at
\* every run
InitEffectEveryRun ==
  /\ HasIds(1)
  /\ initialized' = TRUE
  /\ status' = "initializing"
  /\ requests' = requests \cup { PlainRequest("startConversation", "/reset", CurEnv) }
  /\ nextId' = nextId + 1
  /\ UNCHANGED componentVars
  /\ ev' = Ev("-")
  /\ UNCHANGED << messages, inputText, pendingAudio, currentForm, formData,
                  showFormManager, isLegacyMode, sessionId, legacyFormData,
                  sessionStatus, formDataV1, timers, audios, utterances,
                  recognizers, quiet >>

\* the useEffect of App: startConversation, once per mount
InitEffect ==
  /\ ~initialized
  /\ HasIds(1)
  /\ initialized' = TRUE
  /\ status' = "initializing"
  /\ requests' = requests \cup { PlainRequest("startConversation", "/reset", CurEnv) }
  /\ nextId' = nextId + 1
  /\ UNCHANGED componentVars
  /\ ev' = Ev("-")
  /\ UNCHANGED << messages, inputText, pendingAudio, currentForm, formData,
                  showFormManager, isLegacyMode, sessionId, legacyFormData,
                  sessionStatus, formDataV1, timers, audios, utterances,
                  recognizers, quiet >>

\* the chat panel is on screen and the app is mounted
ChatVisible == initialized /\ ~showFormManager

InputSamples == { sEmpty, sHi }

\* onChange of the chat input
TypeInput(s) ==
  /\ ChatVisible
  /\ inputText # s
  /\ inputText' = s
  /\ UNCHANGED componentVars
  /\ ev' = Ev("-")
  /\ UNCHANGED << messages, status, pendingAudio, currentForm, formData,
                  showFormManager, isLegacyMode, sessionId, legacyFormData,
                  sessionStatus, initialized, formDataV1, envVars, quiet >>

\* handleSend, run in the closure of the current render
handleSend ==
  /\ Trim(inputText) # sEmpty
  /\ messages' = Append(messages, "user")
  /\ inputText' = sEmpty
  /\ CallChat(ChatFn(CurEnv), CurEnv, Trim(inputText), status)
  /\ UNCHANGED componentVars
  /\ ev' = Ev("-")
  /\ quiet' = FALSE
  /\ UNCHANGED << pendingAudio, currentForm, formData, showFormManager,
                  isLegacyMode, sessionId, legacyFormData, sessionStatus,
                  initialized, formDataV1, timers, audios, utterances,
                  recognizers >>

\* the Send button: disabled={!inputText.trim() || status === 'waiting...'}
ClickSend ==
  /\ ChatVisible
  /\ ~(Trim(inputText) = sEmpty \/ status = "waiting...")
  /\ handleSend

\* handleKeyDown: e.key === 'Enter' && inputText.trim()
PressEnter ==
  /\ ChatVisible
  /\ Trim(inputText) # sEmpty
  /\ handleSend

(***************************************************************************)
(* Speech capture: handleMic and the recognizer's callbacks                *)
(***************************************************************************)

\* handleMic run in the closure env; rec.start() either starts the
\* recognizer or throws into the catch of handleMic
handleMic(env, throws) ==
  IF throws
  THEN /\ status' = "error"
       /\ UNCHANGED << recognizers, nextId >>
  ELSE /\ HasIds(1)
       /\ status' = "listening"
       /\ recognizers' = recognizers \cup
            { [id |-> nextId, env |-> env, phase |-> "started",
               out |-> "none", heard |-> "nothing"] }
       /\ nextId' = nextId + 1

\* the microphone button:
\* disabled={status === 'listening' || status === 'waiting...'}
ClickMic ==
  /\ ChatVisible
  /\ ~(status = "listening" \/ status = "waiting...")
  /\ \E throws \in BOOLEAN : handleMic(CurEnv, throws)
  /\ UNCHANGED componentVars
  /\ ev' = Ev("-")
  /\ quiet' = FALSE
  /\ UNCHANGED << messages, inputText, pendingAudio, currentForm, formData,
                  showFormManager, isLegacyMode, sessionId, legacyFormData,
                  sessionStatus, initialized, formDataV1, requests, timers,
                  audios, utterances >>

\* the engine forms an interim hypothesis of low confidence; interimResults
\* is false, so no handler runs.  The member "heard" of a recognizer is
\* history: what its engine has picked up so far.
RecInterim(rec) ==
  /\ rec \in recognizers
  /\ rec.phase = "started"
  /\ rec.heard = "nothing"
  /\ recognizers' = (recognizers \ { rec }) \cup { [rec EXCEPT !.heard = "noise"] }
  /\ UNCHANGED componentVars
  /\ ev' = Ev("-")
  /\ UNCHANGED << appVars, requests, timers, audios, utterances, nextId, quiet >>

\* the transcripts a final result carries: an empty one and one with words
Transcripts == { sEmpty, sHi }

\* rec.onresult: the transcript becomes a user message and a chat turn.  The
\* member "out" of a recognizer is history: what its session has emitted.
RecResult(rec, text) ==
  /\ rec \in recognizers
  /\ rec.phase = "started"
  /\ recognizers' = (recognizers \ { rec }) \cup
       { [rec EXCEPT !.phase = "result", !.out = "transcript", !.heard = "speech"] }
  /\ messages' = Append(messages, "voice")
  /\ CallChat(ChatFn(rec.env), rec.env, text, status)
  /\ UNCHANGED componentVars
  /\ ev' = [op |-> "RecResult", text |-> text, sent |-> requests' \ requests]
  /\ quiet' = FALSE
  /\ UNCHANGED << inputText, pendingAudio, currentForm, formData,
                  showFormManager, isLegacyMode, sessionId, legacyFormData,
                  sessionStatus, initialized, formDataV1, timers, audios,
                  utterances >>

\* e.error of a SpeechRecognitionErrorEvent: permission refused, nothing
\* heard, no microphone
ErrorKinds == { "not-allowed", "no-speech", "audio-capture" }

\* a text that does not name the error
SpeechErrorTextGeneric(kind) ==
  "Speech recognition error. Please try typing instead."

\* `Speech recognition error: ${e.error}. Please try typing instead.`
SpeechErrorText(kind) ==
  "Speech recognition error: " \o kind \o ". Please try typing instead."

\* rec.onerror: error status, an error message, and the 2 s status reset
RecError(rec, kind) ==
  /\ rec \in recognizers
  /\ rec.phase = "started"
  /\ HasIds(1)
  /\ recognizers' = (recognizers \ { rec }) \cup
       { [rec EXCEPT !.phase = "error", !.out = kind] }
  /\ status' = "error"
  /\ messages' = Append(messages, SpeechErrorText(kind))
  /\ timers' = timers \cup { [id |-> nextId, kind |-> "statusIdle", env |-> rec.env] }
  /\ nextId' = nextId + 1
  /\ UNCHANGED componentVars
  /\ ev' = [op |-> "RecError", kind |-> kind]
  /\ UNCHANGED << inputText, pendingAudio, currentForm, formData,
                  showFormManager, isLegacyMode, sessionId, legacyFormData,
                  sessionStatus, initialized, formDataV1, requests, audios,
                  utterances, quiet >>

\* rec.onend
RecEnd(rec) ==
  /\ rec \in recognizers
  /\ recognizers' = recognizers \ { rec }
  /\ status' = "idle"
  /\ UNCHANGED componentVars
  /\ ev' = [op |-> "RecEnd", out |-> rec.out, heard |-> rec.heard]
  /\ UNCHANGED << messages, inputText, pendingAudio, currentForm, formData,
                  showFormManager, isLegacyMode, sessionId, legacyFormData,
                  sessionStatus, initialized, formDataV1, requests, timers,
                  audios, utterances, nextId, quiet >>

(***************************************************************************)
(* Playback: playBase64WavOrFallback, speakText, handleAudioEnable         *)
(***************************************************************************)

Pending(b64, text) == [t |-> "pending", b64 |-> b64, text |-> text]

\* playBase64WavOrFallback(b64, text) up to its await of audio.play();
\* src names the caller that awaits it
Play(b64, text, env, src) ==
  IF ~Truthy(b64) /\ Truthy(text)
  THEN /\ utterances' = Append(utterances, [auto |-> FALSE, env |-> env])
       /\ UNCHANGED << audios, nextId >>
  ELSE IF ~Truthy(b64)
  THEN UNCHANGED << audios, utterances, nextId >>
  ELSE /\ HasIds(1)
       /\ audios' = audios \cup
            { [id |-> nextId, env |-> env, src |-> src, b64 |-> b64,
               text |-> text, phase |-> "starting"] }
       /\ nextId' = nextId + 1
       /\ UNCHANGED utterances

\* audio.play() resolved: setPendingAudio(null), the 'ended' listener
PlayResolved(a) ==
  /\ a \in audios
  /\ a.phase = "starting"
  /\ audios' = (audios \ { a }) \cup { [a EXCEPT !.phase = "playing"] }
  /\ pendingAudio' = Null
  /\ UNCHANGED componentVars
  /\ ev' = Ev("-")
  /\ UNCHANGED << messages, inputText, status, currentForm, formData,
                  showFormManager, isLegacyMode, sessionId, legacyFormData,
                  sessionStatus, initialized, formDataV1, requests, timers,
                  utterances, recognizers, nextId, quiet >>

\* audio.play() rejected (or the blob could not be built): the catch sets
\* the audio pending and speaks the text; handleAudioEnable, when it is the
\* caller, then runs its own setPendingAudio(null).  Only the second
\* revision's utterance carries the onend that starts the microphone.
PlayRejected(a) ==
  /\ a \in audios
  /\ a.phase = "starting"
  /\ audios' = audios \ { a }
  /\ pendingAudio' = IF a.src = "enable" THEN Null ELSE Pending(a.b64, a.text)
  /\ utterances' = IF Truthy(a.text)
                   THEN Append(utterances, [auto |-> a.src # "v1", env |-> a.env])
                   ELSE utterances
  /\ UNCHANGED componentVars
  /\ ev' = Ev("-")
  /\ UNCHANGED << messages, inputText, status, currentForm, formData,
                  showFormManager, isLegacyMode, sessionId, legacyFormData,
                  sessionStatus, initialized, formDataV1, requests, timers,
                  recognizers, nextId, quiet >>

\* the 'ended' listener: setTimeout(handleMic, 500)
AudioEnded(a) ==
  /\ a \in audios
  /\ a.phase = "playing"
  /\ audios' = audios \ { a }
  /\ IF a.src = "v1"
     THEN UNCHANGED << timers, nextId >>
     ELSE /\ HasIds(1)
          /\ timers' = timers \cup
               { [id |-> nextId, kind |-> "autoListen", env |-> a.env] }
          /\ nextId' = nextId + 1
  /\ UNCHANGED componentVars
  /\ ev' = IF a.src = "v1" THEN Ev("-")
           ELSE [op |-> "HandleFired", kind |-> "ended", id |-> a.id]
  /\ UNCHANGED << appVars, requests, utterances, recognizers, quiet >>

\* the utterance being spoken ends; utterance.onend, where set, schedules
\* handleMic
UtteranceEnded ==
  /\ utterances # << >>
  /\ utterances' = Tail(utterances)
  /\ IF Head(utterances).auto
     THEN /\ HasIds(1)
          /\ timers' = timers \cup
               { [id |-> nextId, kind |-> "autoListen",
                  env |-> Head(utterances).env] }
          /\ nextId' = nextId + 1
     ELSE UNCHANGED << timers, nextId >>
  /\ UNCHANGED componentVars
  /\ ev' = Ev("-")
  /\ UNCHANGED << appVars, requests, audios, recognizers, quiet >>

\* handleAudioEnable: the enable-audio button, shown while pendingAudio
ClickAudioEnable ==
  /\ ChatVisible
  /\ pendingAudio # Null
  /\ Play(pendingAudio.b64, pendingAudio.text, CurEnv, "enable")
  /\ UNCHANGED componentVars
  /\ ev' = Ev("-")
  /\ UNCHANGED << appVars, requests, timers, recognizers, quiet >>

(***************************************************************************)
(* Answers of the backend                                                  *)
(***************************************************************************)

\* the parsed body of a chat answer; an absent member reads as undefined
Answer(reply, updates, session_status, audio_b64, form_summary) ==
  [reply |-> reply, updates |-> updates, session_status |-> session_status,
   audio_b64 |-> audio_b64, form_summary |-> form_summary]

NoData == Answer(Undefined, Undefined, Undefined, Undefined, Undefined)

ReportedSessionStatus ==
  Obj(<< << "completed", Bool(FALSE) >>, << "current_field", Str(sAl) >>,
         << "frustration_level", Num(0) >> >>)

Collected(v) == Obj(<< << "value", v >>, << "status", Str(sCollected) >> >>)
PendingInfo(v) == Obj(<< << "value", v >>, << "status", Str(sPending) >> >>)

sWav == << "U", "k", "l", "G" >>

\* the answers drawn in the specification of the whole client
LegacyAnswers ==
  { Answer(Str(sHi),
           Obj(<< << "full_name", Str(sAl) >>, << "email", Collected(Str(sAl)) >>,
                  << "phone", Str(sTen) >>, << "dob", Str(sDob) >> >>),
           ReportedSessionStatus, Undefined, Undefined),
    Answer(Str(sHi), Undefined, Undefined, Str(sWav), Undefined),
    NoData }

DynamicAnswers ==
  { Answer(Str(sHi), Undefined, Undefined, Undefined,
           Obj(<< << "fields", Obj(<< << "email", Collected(Str(sAl)) >> >>) >> >>)),
    Answer(Str(sHi), Undefined, Undefined, Str(sWav), Undefined) }

\* legacyBackendChat after its awaits, the answer being OK and parsed
LegacyChatOk(r, data) ==
  /\ r \in requests
  /\ r.fn = "legacyBackendChat"
  /\ requests' = requests \ { r }
  /\ status' = "idle"
  /\ messages' = IF Truthy(data.reply) THEN Append(messages, "agent") ELSE messages
  /\ sessionStatus' = IF Truthy(data.session_status)
                      THEN data.session_status ELSE sessionStatus
  /\ legacyFormData' = IF Truthy(data.updates)
                       THEN updateLegacyFormData(legacyFormData, data.updates)
                       ELSE legacyFormData
  /\ IF Truthy(data.audio_b64) \/ Truthy(data.reply)
     THEN Play(data.audio_b64, data.reply, r.env, "chat")
     ELSE UNCHANGED << audios, utterances, nextId >>
  /\ UNCHANGED componentVars
  /\ ev' = EvAnswer("LegacyChatOk", data, FALSE, r)
  /\ UNCHANGED << inputText, pendingAudio, currentForm, formData,
                  showFormManager, isLegacyMode, sessionId, initialized,
                  formDataV1, timers, recognizers, quiet >>

\* dynamicBackendChat after its awaits, the answer being OK and parsed; a
\* TypeError thrown by the forEach lands in the catch of the function
DynamicChatOk(r, data) ==
  LET entries == SummaryFields(data)
      threw == SummaryThrows(entries)
      replied == IF Truthy(data.reply) THEN Append(messages, "agent") ELSE messages
  IN /\ r \in requests
     /\ r.fn = "dynamicBackendChat"
     /\ requests' = requests \ { r }
     /\ status' = IF threw THEN "error" ELSE "idle"
     /\ messages' = IF threw THEN Append(replied, "error") ELSE replied
     /\ formData' = IF threw THEN formData ELSE MergeSummary(formData, entries)
     /\ IF ~threw /\ (Truthy(data.audio_b64) \/ Truthy(data.reply))
        THEN Play(data.audio_b64, data.reply, r.env, "chat")
        ELSE UNCHANGED << audios, utterances, nextId >>
     /\ UNCHANGED componentVars
     /\ ev' = EvAnswer("DynamicChatOk", data, threw, r)
     /\ UNCHANGED << inputText, pendingAudio, currentForm, showFormManager,
                     isLegacyMode, sessionId, legacyFormData, sessionStatus,
                     initialized, formDataV1, timers, recognizers, quiet >>

\* a catch that swallows the failure: no message, the status left as it is
ChatFailedSilent(r) ==
  /\ r \in requests
  /\ r.fn \in ChatFns
  /\ requests' = requests \ { r }
  /\ UNCHANGED componentVars
  /\ ev' = EvData("ChatFailed", NoData, TRUE)
  /\ quiet' = TRUE
  /\ UNCHANGED << appVars, timers, audios, utterances, recognizers, nextId >>

\* a catch that sends the failed request again
ChatFailedRetry(r) ==
  /\ r \in requests
  /\ r.fn \in ChatFns
  /\ HasIds(1)
  /\ requests' = (requests \ { r }) \cup { [r EXCEPT !.id = nextId] }
  /\ nextId' = nextId + 1
  /\ status' = "error"
  /\ messages' = Append(messages, "error")
  /\ UNCHANGED componentVars
  /\ ev' = EvData("ChatFailed", NoData, TRUE)
  /\ quiet' = TRUE
  /\ UNCHANGED << inputText, pendingAudio, currentForm, formData,
                  showFormManager, isLegacyMode, sessionId, legacyFormData,
                  sessionStatus, initialized, formDataV1, timers, audios,
                  utterances, recognizers >>

\* the catch of legacyBackendChat and of dynamicBackendChat, reached when
\* fetch rejects, the answer is not OK, or its body does not parse
ChatFailed(r) ==
  /\ r \in requests
  /\ r.fn \in ChatFns
  /\ requests' = requests \ { r }
  /\ status' = "error"
  /\ messages' = Append(messages, "error")
  /\ UNCHANGED componentVars
  /\ ev' = EvData("ChatFailed", NoData, TRUE)
  /\ quiet' = TRUE
  /\ UNCHANGED << inputText, pendingAudio, currentForm, formData,
                  showFormManager, isLegacyMode, sessionId, legacyFormData,
                  sessionStatus, initialized, formDataV1, timers, audios,
                  utterances, recognizers, nextId >>

\* backendChat of the first revision after its awaits
BackendChatV1Ok(r, data) ==
  /\ r \in requests
  /\ r.fn = "backendChat"
  /\ requests' = requests \ { r }
  /\ status' = "idle"
  /\ messages' = IF Truthy(data.reply) THEN Append(messages, "agent") ELSE messages
  /\ formDataV1' = IF Truthy(data.updates)
                   THEN backendChatUpdates(formDataV1, data.updates)
                   ELSE formDataV1
  /\ Play(data.audio_b64, data.reply, r.env, "v1")
  /\ UNCHANGED componentVars
  /\ ev' = EvData("BackendChatV1Ok", data, FALSE)
  /\ UNCHANGED << inputText, pendingAudio, currentForm, formData,
                  showFormManager, isLegacyMode, sessionId, legacyFormData,
                  sessionStatus, initialized, timers, recognizers, quiet >>

(***************************************************************************)
(* Conversation start, reset, submit                                       *)
(***************************************************************************)

\* startConversation after its reset fetch resolved (no res.ok test)
StartConversationOk(r) ==
  /\ r \in requests
  /\ r.fn = "startConversation"
  /\ IF r.env.legacy
     THEN /\ HasIds(1)
          /\ status' = "waiting..."
          /\ requests' = (requests \ { r }) \cup
               { ChatRequest("legacyBackendChat", r.env, sEmpty) }
          /\ nextId' = nextId + 1
     ELSE /\ requests' = requests \ { r }
          /\ UNCHANGED << status, nextId >>
  /\ UNCHANGED componentVars
  /\ ev' = Ev("StartConversation")
  /\ UNCHANGED << messages, inputText, pendingAudio, currentForm, formData,
                  showFormManager, isLegacyMode, sessionId, legacyFormData,
                  sessionStatus, initialized, formDataV1, timers, audios,
                  utterances, recognizers, quiet >>

\* the catch of startConversation: the reset fetch rejected
StartConversationFailed(r) ==
  /\ r \in requests
  /\ r.fn = "startConversation"
  /\ requests' = requests \ { r }
  /\ status' = "error"
  /\ messages' = << "error" >>
  /\ UNCHANGED componentVars
  /\ ev' = Ev("-")
  /\ UNCHANGED << inputText, pendingAudio, currentForm, formData,
                  showFormManager, isLegacyMode, sessionId, legacyFormData,
                  sessionStatus, initialized, formDataV1, timers, audios,
                  utterances, recognizers, nextId, quiet >>

\* handleReset, the confirm accepted, up to its await of the reset fetch
ClickReset ==
  /\ ChatVisible
  /\ HasIds(1)
  /\ requests' = requests \cup { PlainRequest("handleReset", "/reset", CurEnv) }
  /\ nextId' = nextId + 1
  /\ UNCHANGED componentVars
  /\ ev' = Ev("-")
  /\ quiet' = FALSE
  /\ UNCHANGED << appVars, timers, audios, utterances, recognizers >>

\* handleReset after its reset fetch resolved, with an OK status or not (the
\* answer is not looked at)
ResetResolved(r, ok) ==
  /\ r \in requests
  /\ r.fn = "handleReset"
  /\ messages' = << >>
  /\ pendingAudio' = Null
  /\ legacyFormData' = IF r.env.legacy THEN EmptyLegacyForm ELSE legacyFormData
  /\ sessionStatus' = IF r.env.legacy THEN InitialSessionStatus ELSE sessionStatus
  /\ formData' = IF ~r.env.legacy /\ r.env.form # NoForm THEN << >> ELSE formData
  /\ IF r.env.legacy \/ r.env.form # NoForm
     THEN /\ HasIds(1)
          /\ status' = "waiting..."
          /\ requests' = (requests \ { r }) \cup
               { ChatRequest(ChatFn(r.env), r.env, sEmpty) }
          /\ nextId' = nextId + 1
     ELSE /\ status' = "idle"
          /\ requests' = requests \ { r }
          /\ UNCHANGED nextId
  /\ UNCHANGED componentVars
  /\ ev' = [op |-> "ResetResolved", ok |-> ok]
  /\ UNCHANGED << inputText, currentForm, showFormManager, isLegacyMode,
                  sessionId, initialized, formDataV1, timers, audios,
                  utterances, recognizers, quiet >>

\* the catch of handleReset: alert("Failed to reset conversation")
ResetFailed(r) ==
  /\ r \in requests
  /\ r.fn = "handleReset"
  /\ requests' = requests \ { r }
  /\ UNCHANGED componentVars
  /\ ev' = Ev("ResetFailed")
  /\ UNCHANGED << appVars, timers, audios, utterances, recognizers, nextId, quiet >>

\* the required fields of handleLegacySubmit that are empty
EmptyFields(form) ==
  { f \in LegacyFields : ~Truthy(form[f]) \/ Trim(form[f].s) = sEmpty }

\* handleLegacySubmit up to its await of the submit fetch
SubmitLegacy ==
  /\ ChatVisible
  /\ isLegacyMode
  /\ EmptyFields(legacyFormData) = { }
  /\ HasIds(1)
  /\ status' = "submitting"
  /\ requests' = requests \cup { PlainRequest("handleLegacySubmit", "/submit", CurEnv) }
  /\ nextId' = nextId + 1
  /\ UNCHANGED componentVars
  /\ ev' = Ev("-")
  /\ quiet' = FALSE
  /\ UNCHANGED << messages, inputText, pendingAudio, currentForm, formData,
                  showFormManager, isLegacyMode, sessionId, legacyFormData,
                  sessionStatus, initialized, formDataV1, timers, audios,
                  utterances, recognizers >>

\* handleDynamicSubmit up to its await of the submit fetch
SubmitDynamic ==
  /\ ChatVisible
  /\ ~isLegacyMode
  /\ currentForm # NoForm
  /\ HasIds(1)
  /\ status' = "submitting"
  /\ requests' = requests \cup
       { PlainRequest("handleDynamicSubmit", "/forms/submit", CurEnv) }
  /\ nextId' = nextId + 1
  /\ UNCHANGED componentVars
  /\ ev' = Ev("-")
  /\ quiet' = FALSE
  /\ UNCHANGED << messages, inputText, pendingAudio, currentForm, formData,
                  showFormManager, isLegacyMode, sessionId, legacyFormData,
                  sessionStatus, initialized, formDataV1, timers, audios,
                  utterances, recognizers >>

\* either submit after an OK answer: the success message; finally idle
SubmitOk(r) ==
  /\ r \in requests
  /\ r.fn \in { "handleLegacySubmit", "handleDynamicSubmit" }
  /\ requests' = requests \ { r }
  /\ messages' = Append(messages, "success")
  /\ sessionStatus' = IF r.fn = "handleLegacySubmit"
                      THEN SetProp(sessionStatus, "completed", Bool(TRUE))
                      ELSE sessionStatus
  /\ status' = "idle"
  /\ UNCHANGED componentVars
  /\ ev' = Ev("-")
  /\ UNCHANGED << inputText, pendingAudio, currentForm, formData,
                  showFormManager, isLegacyMode, sessionId, legacyFormData,
                  initialized, formDataV1, timers, audios, utterances,
                  recognizers, nextId, quiet >>

\* either submit failing: the alert; finally idle
SubmitFailed(r) ==
  /\ r \in requests
  /\ r.fn \in { "handleLegacySubmit", "handleDynamicSubmit" }
  /\ requests' = requests \ { r }
  /\ status' = "idle"
  /\ UNCHANGED componentVars
  /\ ev' = Ev("SubmitFailed")
  /\ quiet' = TRUE
  /\ UNCHANGED << messages, inputText, pendingAudio, currentForm, formData,
                  showFormManager, isLegacyMode, sessionId, legacyFormData,
                  sessionStatus, initialized, formDataV1, timers, audios,
                  utterances, recognizers, nextId >>

(***************************************************************************)
(* Forms and modes: handleFormSelected, switchToLegacyMode, field edits    *)
(***************************************************************************)

\* the "Dynamic Forms" / "Choose Form" buttons
OpenFormManager ==
  /\ ChatVisible
  /\ showFormManager' = TRUE
  /\ UNCHANGED componentVars
  /\ ev' = Ev("-")
  /\ UNCHANGED << messages, inputText, status, pendingAudio, currentForm,
                  formData, isLegacyMode, sessionId, legacyFormData,
                  sessionStatus, initialized, formDataV1, envVars, quiet >>

\* onClose of the form manager
CloseFormManager ==
  /\ initialized
  /\ showFormManager
  /\ showFormManager' = FALSE
  /\ UNCHANGED componentVars
  /\ ev' = Ev("-")
  /\ UNCHANGED << messages, inputText, status, pendingAudio, currentForm,
                  formData, isLegacyMode, sessionId, legacyFormData,
                  sessionStatus, initialized, formDataV1, envVars, quiet >>

\* handleFormSelected(form): the timer's callback is the dynamicBackendChat
\* of the render that created this handler
handleFormSelected(form) ==
  /\ initialized
  /\ showFormManager
  /\ HasIds(2)
  /\ sessionId' = nextId
  /\ currentForm' = form
  /\ formData' = << >>
  /\ messages' = << >>
  /\ isLegacyMode' = FALSE
  /\ showFormManager' = FALSE
  /\ timers' = timers \cup
       { [id |-> nextId + 1, kind |-> "dynamicBackendChat", env |-> CurEnv,
          for |-> [sid |-> nextId, form |-> form]] }
  /\ nextId' = nextId + 2
  /\ UNCHANGED componentVars
  /\ ev' = Ev("-")
  /\ quiet' = FALSE
  /\ UNCHANGED << inputText, status, pendingAudio, legacyFormData,
                  sessionStatus, initialized, formDataV1, requests, audios,
                  utterances, recognizers >>

\* switchToLegacyMode: the timer's callback is the legacyBackendChat of the
\* render that created this handler.  The member "for" of a conversation
\* timer is history: the session and form its handler has just set.
switchToLegacyMode ==
  /\ ChatVisible
  /\ HasIds(2)
  /\ sessionId' = nextId
  /\ isLegacyMode' = TRUE
  /\ currentForm' = NoForm
  /\ formData' = << >>
  /\ messages' = << >>
  /\ legacyFormData' = EmptyLegacyForm
  /\ sessionStatus' = InitialSessionStatus
  /\ timers' = timers \cup
       { [id |-> nextId + 1, kind |-> "legacyBackendChat", env |-> CurEnv,
          for |-> [sid |-> nextId, form |-> NoForm]] }
  /\ nextId' = nextId + 2
  /\ UNCHANGED componentVars
  /\ ev' = Ev("-")
  /\ quiet' = FALSE
  /\ UNCHANGED << inputText, status, pendingAudio, showFormManager,
                  initialized, formDataV1, requests, audios, utterances,
                  recognizers >>

\* a setTimeout callback runs, in the closure that created it
TimerFires(t) ==
  /\ t \in timers
  /\ timers' = timers \ { t }
  /\ CASE t.kind \in ChatFns ->
            /\ CallChat(t.kind, t.env, sEmpty, status)
            /\ UNCHANGED recognizers
       [] t.kind = "autoListen" ->
            /\ \E throws \in BOOLEAN : handleMic(t.env, throws)
            /\ UNCHANGED requests
       [] t.kind = "statusIdle" ->
            /\ status' = "idle"
            /\ UNCHANGED << requests, recognizers, nextId >>
  /\ UNCHANGED componentVars
  /\ ev' = IF t.kind \in ChatFns
           THEN [op |-> "TimerFires", for |-> t.for,
                 sent |-> requests' \ requests]
           ELSE [op |-> "HandleFired", kind |-> t.kind, id |-> t.id]
  /\ UNCHANGED << messages, inputText, pendingAudio, currentForm, formData,
                  showFormManager, isLegacyMode, sessionId, legacyFormData,
                  sessionStatus, initialized, formDataV1, audios, utterances,
                  quiet >>

\* setFormData of the legacy form side: (field, value) =>
\* setLegacyFormData(prev => ({ ...prev, [field]: value }))
EditLegacyField(f, v) ==
  /\ ChatVisible
  /\ isLegacyMode
  /\ legacyFormData[f] # Str(v)
  /\ legacyFormData' = [legacyFormData EXCEPT ![f] = Str(v)]
  /\ UNCHANGED componentVars
  /\ ev' = Ev("-")
  /\ UNCHANGED << messages, inputText, status, pendingAudio, currentForm,
                  formData, showFormManager, isLegacyMode, sessionId,
                  sessionStatus, initialized, formDataV1, envVars, quiet >>

\* { ...form, [f]: x }
WithField(form, f, x) ==
  [k \in DOMAIN form \cup { f } |-> IF k = f THEN x ELSE form[k]]

\* updateDynamicFormData(fieldName, value)
EditDynamicField(f, v) ==
  /\ ChatVisible
  /\ ~isLegacyMode
  /\ currentForm # NoForm
  /\ formData # WithField(formData, f, Str(v))
  /\ formData' = WithField(formData, f, Str(v))
  /\ UNCHANGED componentVars
  /\ ev' = Ev("-")
  /\ UNCHANGED << messages, inputText, status, pendingAudio, currentForm,
                  showFormManager, isLegacyMode, sessionId, legacyFormData,
                  sessionStatus, initialized, formDataV1, envVars, quiet >>

(***************************************************************************)
(* The client: the second revision of App.jsx with the chat panel          *)
(***************************************************************************)

Next ==
  \/ InitEffect
  \/ \E s \in InputSamples : TypeInput(s)
  \/ ClickSend
  \/ PressEnter
  \/ ClickMic
  \/ \E rec \in recognizers : RecInterim(rec)
  \/ \E rec \in recognizers : \E text \in Transcripts : RecResult(rec, text)
  \/ \E rec \in recognizers : \E kind \in ErrorKinds : RecError(rec, kind)
  \/ \E rec \in recognizers : RecEnd(rec)
  \/ \E a \in audios : PlayResolved(a)
  \/ \E a \in audios : PlayRejected(a)
  \/ \E a \in audios : AudioEnded(a)
  \/ UtteranceEnded
  \/ ClickAudioEnable
  \/ \E r \in requests : \E data \in LegacyAnswers : LegacyChatOk(r, data)
  \/ \E r \in requests : \E data \in DynamicAnswers : DynamicChatOk(r, data)
  \/ \E r \in requests : ChatFailed(r)
  \/ \E r \in requests : StartConversationOk(r)
  \/ \E r \in requests : StartConversationFailed(r)
  \/ \E r \in requests : \E ok \in BOOLEAN : ResetResolved(r, ok)
  \/ \E r \in requests : ResetFailed(r)
  \/ \E r \in requests : SubmitOk(r)
  \/ \E r \in requests : SubmitFailed(r)
  \/ ClickReset
  \/ SubmitLegacy
  \/ SubmitDynamic
  \/ OpenFormManager
  \/ CloseFormManager
  \/ \E form \in Forms : handleFormSelected(form)
  \/ switchToLegacyMode
  \/ \E t \in timers : TimerFires(t)

Spec == Init /\ [][Next]_vars

(***************************************************************************)
(* One chat turn's answer, its payload drawn from the malformed and the    *)
(* well-formed: the specification the merge is checked under               *)
(***************************************************************************)

\* handleChange of the form side of the first revision:
\* setFormData(prev => ({ ...prev, [name]: value }))
EditFieldV1(f, v) ==
  /\ ChatVisible
  /\ formDataV1[f] # Str(v)
  /\ formDataV1' = [formDataV1 EXCEPT ![f] = Str(v)]
  /\ UNCHANGED componentVars
  /\ ev' = Ev("-")
  /\ UNCHANGED << messages, inputText, status, pendingAudio, currentForm,
                  formData, showFormManager, isLegacyMode, sessionId,
                  legacyFormData, sessionStatus, initialized, envVars, quiet >>

\* the values a payload reports for a field
MergeValues ==
  { Str(sEmpty), Str(sSpace), Str(sAl), Str(sAlPad), Str(sObj), Str(sObjPad),
    Str(sTen),
    Null, Num(7), Arr(<< Str(sAl) >>),
    Collected(Str(sAl)), Collected(Str(sAlPad)), Collected(Str(sEmpty)),
    Collected(Num(7)), PendingInfo(Str(sAl)),
    Obj(<< >>), Obj(<< << "collected", Str(sAl) >> >>) }

\* the keys a payload reports: the two names of fullName, two more fields,
\* and a name no form has
MergeKeys == { "full_name", "fullName", "email", "phone", "nickname" }

MergeEntrySeqs ==
  { es \in UNION { [1..n -> MergeKeys \X MergeValues] : n \in 0..MaxEntries } :
      \A i, j \in 1..Len(es) : i # j => es[i][1] # es[j][1] }

\* the payloads: objects of at most MaxEntries members, and what is no object
MergePayloads ==
  { Obj(es) : es \in MergeEntrySeqs } \cup
  { Null, Str(sAl), Num(7), Arr(<< Str(sAl) >>) }

\* what the user has typed into the form before the answer arrives
TypedSamples == { << "fullName", sAl >>, << "email", sAl >>, << "phone", sTen >> }

\* the client waits for the answer of the chat turn that fn sent
InitMerge(fn) ==
  /\ messages = << >>
  /\ inputText = sEmpty
  /\ status = "waiting..."
  /\ pendingAudio = Null
  /\ currentForm = IF fn = "dynamicBackendChat" THEN "A" ELSE NoForm
  /\ formData = << >>
  /\ showFormManager = FALSE
  /\ isLegacyMode = (fn # "dynamicBackendChat")
  /\ sessionId = 0
  /\ legacyFormData = EmptyLegacyForm
  /\ sessionStatus = InitialSessionStatus
  /\ initialized = TRUE
  /\ formDataV1 = EmptyLegacyForm
  /\ requests =
       { [id |-> 1,
          url |-> IF fn = "dynamicBackendChat" THEN "/dynamic-chat" ELSE "/chat",
          sid |-> 0,
          form |-> IF fn = "dynamicBackendChat" THEN "A" ELSE NoForm,
          msg |-> sEmpty, fn |-> fn,
          env |-> [sid |-> 0,
                   form |-> IF fn = "dynamicBackendChat" THEN "A" ELSE NoForm,
                   legacy |-> (fn # "dynamicBackendChat")]] }
  /\ timers = { }
  /\ audios = { }
  /\ utterances = << >>
  /\ recognizers = { }
  /\ nextId = 2
  /\ ev = Ev("init")
  /\ quiet = FALSE
  /\ InitBuilder /\ InitManager /\ InitRec

InitAnyMerge ==
  \E fn \in { "backendChat", "legacyBackendChat", "dynamicBackendChat" } :
    InitMerge(fn)

Waiting(fn) == \E r \in requests : r.fn = fn

TypeLegacyField ==
  /\ Waiting("legacyBackendChat")
  /\ \E e \in TypedSamples : EditLegacyField(e[1], e[2])

TypeDynamicField ==
  /\ Waiting("dynamicBackendChat")
  /\ \E e \in TypedSamples : EditDynamicField(e[1], e[2])

TypeFieldV1 ==
  /\ Waiting("backendChat")
  /\ \E e \in TypedSamples : EditFieldV1(e[1], e[2])

LegacyAnswerArrives ==
  \E r \in requests : \E u \in MergePayloads :
    LegacyChatOk(r, Answer(Str(sHi), u, Undefined, Undefined, Undefined))

DynamicAnswerArrives ==
  \E r \in requests : \E u \in MergePayloads :
    DynamicChatOk(r, Answer(Str(sHi), Undefined, Undefined, Undefined,
                            Obj(<< << "fields", u >> >>)))

AnswerArrivesV1 ==
  \E r \in requests : \E u \in MergePayloads :
    BackendChatV1Ok(r, Answer(Str(sHi), u, Undefined, Undefined, Undefined))

NextMerge ==
  \/ TypeLegacyField
  \/ TypeDynamicField
  \/ TypeFieldV1
  \/ LegacyAnswerArrives
  \/ DynamicAnswerArrives
  \/ AnswerArrivesV1

SpecMerge == InitAnyMerge /\ [][NextMerge]_vars

(***************************************************************************)
(* The merge of reported field updates (checked under SpecMerge)           *)
(***************************************************************************)

MergeOps == { "LegacyChatOk", "DynamicChatOk", "BackendChatV1Ok" }

\* the fields the last answer's merge works on
MergedFields ==
  IF ev.op = "DynamicChatOk" THEN MergeKeys \cup DOMAIN ev.formData
  ELSE LegacyFields

Get(form, f) == IF f \in DOMAIN form THEN form[f] ELSE Undefined

\* a field's value before and after the last answer
Before(f) ==
  CASE ev.op = "LegacyChatOk" -> ev.legacyFormData[f]
    [] ev.op = "BackendChatV1Ok" -> ev.formDataV1[f]
    [] ev.op = "DynamicChatOk" -> Get(ev.formData, f)

After(f) ==
  CASE ev.op = "LegacyChatOk" -> legacyFormData[f]
    [] ev.op = "BackendChatV1Ok" -> formDataV1[f]
    [] ev.op = "DynamicChatOk" -> Get(formData, f)

\* the entries of the last answer's payload
ReportedEntries ==
  IF ev.op = "DynamicChatOk" THEN SummaryFields(ev.data)
  ELSE Entries(ev.data.updates)

\* the field an entry's key names
FieldOfKey(k) ==
  CASE ev.op = "LegacyChatOk" -> fieldMappings(k)
    [] ev.op = "BackendChatV1Ok" -> IF k = "full_name" THEN "fullName"
                                    ELSE IF k = "fullName" THEN "-" ELSE k
    [] ev.op = "DynamicChatOk" -> k

\* what the last answer reports for field f
ReportedValues(f) ==
  { ReportedEntries[i][2] :
      i \in { j \in 1..Len(ReportedEntries) : FieldOfKey(ReportedEntries[j][1]) = f } }

\* the value before, a ten-digit phone number of the legacy form rewritten
\* as (ddd) ddd-dddd
NormalBefore(f) ==
  IF ev.op = "LegacyChatOk" THEN FormatPhone(ev.legacyFormData)[f]
  ELSE Before(f)

ReportsEmpty(f) == ReportedValues(f) = { Str(sEmpty) }

IsPendingWrapper(v) ==
  v.t = "object" /\ Prop(v, "status") = Str(sPending) /\ HasKey(v, "value")

\* C2 as stated: a field reported only as a wrapper object whose status is
\* "pending" has, after the merge, the value it had before (legacy merge and
\* dynamic merge).
C2_PendingIgnored ==
  ev.op \in { "LegacyChatOk", "DynamicChatOk" } =>
    \A f \in MergedFields :
      (ReportedValues(f) # { } /\ \A v \in ReportedValues(f) : IsPendingWrapper(v))
        => After(f) = Before(f)

\* the texts a well-formed entry carries: not blank, not the artifact
CleanText(x) == IsStr(x) /\ Trim(x.s) # sEmpty /\ Trim(x.s) # sObj

\* C3 as stated: a field reported as { value: X, status: "collected" } with X
\* a non-empty text has the value X after the merge (the legacy merge stores
\* X trimmed), in the legacy merge and in the dynamic merge.
C3_CollectedStored ==
  ev.op \in { "LegacyChatOk", "DynamicChatOk" } =>
    \A f \in MergedFields : \A v \in ReportedValues(f) :
      ( /\ ReportedValues(f) = { v }
        /\ v.t = "object"
        /\ IsCollected(Prop(v, "status"))
        /\ CleanText(Prop(v, "value")) )
      => After(f) \in { Prop(v, "value"), Str(Trim(Prop(v, "value").s)) }

\* C4, its last sentence: no legacy merge leaves the text "[object Object]"
\* in a field of the form.
C4_NeverStoresArtifact ==
  ev.op = "LegacyChatOk" =>
    \A f \in LegacyFields : legacyFormData[f] # Str(sObj)

\* an entry of the wrong type or of an unexpected shape
Malformed(v) ==
  v.t \in { "null", "number", "array" } \/ (v.t = "object" /\ v.p = << >>)

\* C5 as stated: when a payload holds a malformed entry, the chat turn does
\* not end in the error state, a field reported only by malformed entries
\* keeps its value, and the well-formed entries of the payload are merged.
C5_MalformedIgnoredPerField ==
  ( /\ ev.op \in { "LegacyChatOk", "DynamicChatOk" }
    /\ \E i \in 1..Len(ReportedEntries) : Malformed(ReportedEntries[i][2]) )
  => /\ status # "error"
     /\ \A f \in MergedFields :
          (ReportedValues(f) # { } /\ \A v \in ReportedValues(f) : Malformed(v))
            => After(f) = NormalBefore(f)
     /\ \A f \in MergedFields : \A v \in ReportedValues(f) :
          ( /\ ReportedValues(f) = { v }
            /\ v.t = "object"
            /\ IsCollected(Prop(v, "status"))
            /\ CleanText(Prop(v, "value")) )
          => After(f) \in { Prop(v, "value"), Str(Trim(Prop(v, "value").s)) }

(***************************************************************************)
(* Chat turns, playback and capture, failures, conversation start          *)
(* (checked under Spec)                                                    *)
(***************************************************************************)

ChatTurnsInFlight == { r \in requests : r.fn \in ChatFns }

\* C6 as stated: at most one chat-turn request is in flight at any time.
C6_OneChatTurnInFlight == Cardinality(ChatTurnsInFlight) <= 1

\* an agent reply is being played or spoken
PlaybackActive ==
  utterances # << >> \/ \E a \in audios : a.phase = "playing"

\* a recognizer is listening
CaptureActive == \E rec \in recognizers : rec.phase = "started"

\* C7 as stated: playback and capture are never active at the same time.
C7_PlaybackExcludesCapture == ~(PlaybackActive /\ CaptureActive)

\* C8: in the state a failed chat turn leaves, the messages are those before
\* plus exactly one agent error message, the status is "error", and no form
\* field and no session status has changed.
C8_FailedTurnReportsError ==
  ev.op = "ChatFailed" =>
    /\ messages = Append(ev.messages, "error")
    /\ status = "error"
    /\ legacyFormData = ev.legacyFormData
    /\ formData = ev.formData
    /\ sessionStatus = ev.sessionStatus

\* a chat turn failed in a conversation that had messages and a filled field
C8_Witness ==
  /\ ev.op = "ChatFailed"
  /\ ev.messages # << >>
  /\ Truthy(legacyFormData.email)
  /\ status = "error"

FailureOps == { "ChatFailed", "SubmitFailed" }

C10_OpeningUsesNewSession ==
  ev.op = "TimerFires" =>
    \E r \in ev.sent :
      /\ r.sid = ev.for.sid
      /\ (r.fn = "dynamicBackendChat" => r.form = ev.for.form)

(***************************************************************************)
(* FormBuilder: addField, removeField, handleSubmit (checked under         *)
(* SpecBuilder)                                                            *)
(***************************************************************************)

\* bounds of the builder
MaxFields == 2
MaxClock == 2

OptionTypes == { "multiple_choice", "checkboxes", "dropdown" }

\* the types offered in the samples: one with options, one without
TypeSamples == { "short_answer", "dropdown" }

\* `field_${n}`
FieldName(n) == "field_" \o ToString(n)

\* Date.now(): not before the time any field on the list was created
Times == { now \in 1..MaxClock : \A i \in 1..Len(fields) : fields[i].id <= now }

\* every handler of FormBuilder leaves the clients alone
BuilderFrame ==
  UNCHANGED << appVars, timers, audios, utterances, recognizers, quiet,
               recVars >>

\* addField(type) at the time now
addField(type, now) ==
  /\ showFormBuilder
  /\ Len(fields) < MaxFields
  /\ fields' = Append(fields,
       [id |-> now, name |-> FieldName(Len(fields) + 1), type |-> type,
        order |-> Len(fields),
        options |-> IF type \in OptionTypes THEN << "Option 1" >> ELSE << >>])
  /\ UNCHANGED << formTitle, isSubmitting, managerVars, requests, nextId >>
  /\ BuilderFrame
  /\ ev' = Ev("-")

\* removeField(fieldId): fields.filter(field => field.id !== fieldId)
removeField(fieldId) ==
  /\ showFormBuilder
  /\ \E i \in 1..Len(fields) : fields[i].id = fieldId
  /\ fields' = SelectSeq(fields, LAMBDA field : field.id # fieldId)
  /\ UNCHANGED << formTitle, isSubmitting, managerVars, requests, nextId >>
  /\ BuilderFrame
  /\ ev' = Ev("-")

\* the title input: setFormTitle
TypeTitle(t) ==
  /\ showFormBuilder
  /\ formTitle # t
  /\ formTitle' = t
  /\ UNCHANGED << fields, isSubmitting, managerVars, requests, nextId >>
  /\ BuilderFrame
  /\ ev' = Ev("-")

\* the schema handleSubmit posts: fields.map(field => ({ name, type, ... }))
PostedFields ==
  [i \in 1..Len(fields) |->
     [name |-> fields[i].name, type |-> fields[i].type,
      order |-> fields[i].order, options |-> fields[i].options]]

\* the "+ Create New Form" button of FormManager: setShowFormBuilder(true)
ShowFormBuilder ==
  /\ ~showFormBuilder
  /\ activeTab = "forms"
  /\ showFormBuilder' = TRUE
  /\ UNCHANGED << forms, loading, activeTab, backendForms, builderVars,
                  requests, nextId >>
  /\ BuilderFrame
  /\ ev' = Ev("-")

\* the requests of handleSubmit, their component now unmounted: what they
\* set of its state is lost
Unmounted(rs) ==
  { IF r.fn = "handleSubmit" THEN [r EXCEPT !.live = FALSE] ELSE r : r \in rs }

\* onClose of the builder (Cancel): setShowFormBuilder(false); the builder is
\* unmounted and mounts afresh when shown again
CloseBuilder ==
  /\ showFormBuilder
  /\ showFormBuilder' = FALSE
  /\ fields' = << >>
  /\ formTitle' = sEmpty
  /\ isSubmitting' = FALSE
  /\ requests' = Unmounted(requests)
  /\ UNCHANGED << forms, loading, activeTab, backendForms, nextId >>
  /\ BuilderFrame
  /\ ev' = Ev("-")

\* handleSubmit up to its await of the fetch; the button is disabled while
\* isSubmitting.  The request keeps the closure of the handler: the forms
\* held by the onFormCreated it was rendered with.
handleSubmit ==
  /\ showFormBuilder
  /\ ~isSubmitting
  /\ Trim(formTitle) # sEmpty
  /\ Len(fields) # 0
  /\ HasIds(1)
  /\ isSubmitting' = TRUE
  /\ requests' = requests \cup
       { [id |-> nextId, fn |-> "handleSubmit", url |-> "/forms",
          title |-> formTitle, fields |-> PostedFields, forms |-> forms,
          live |-> TRUE] }
  /\ nextId' = nextId + 1
  /\ UNCHANGED << fields, formTitle, managerVars >>
  /\ BuilderFrame
  /\ ev' = Ev("-")

\* the id the backend gives the form that the request r creates
FormOf(r) == "F" \o ToString(r.id)

\* handleFormCreated(newForm) in the closure that holds the list fs:
\* setForms([newForm, ...forms])
handleFormCreated(newForm, fs) == << newForm >> \o fs

\* handleSubmit after its await: on response.ok onFormCreated and onClose
\* (the builder is unmounted), otherwise the alert; finally
\* setIsSubmitting(false)
BuilderSubmitDone(r, ok) ==
  /\ r \in requests
  /\ r.fn = "handleSubmit"
  /\ IF ok
     THEN /\ backendForms' = backendForms \cup { FormOf(r) }
          /\ forms' = handleFormCreated(FormOf(r), r.forms)
          /\ showFormBuilder' = FALSE
          /\ fields' = << >>
          /\ formTitle' = sEmpty
          /\ isSubmitting' = FALSE
          /\ requests' = Unmounted(requests \ { r })
     ELSE /\ isSubmitting' = IF r.live THEN FALSE ELSE isSubmitting
          /\ requests' = requests \ { r }
          /\ UNCHANGED << backendForms, forms, showFormBuilder, fields,
                          formTitle >>
  /\ UNCHANGED << loading, activeTab, nextId >>
  /\ BuilderFrame
  /\ ev' = Ev("-")

NextBuilder ==
  \/ ShowFormBuilder
  \/ \E type \in TypeSamples : \E now \in Times : addField(type, now)
  \/ \E i \in 1..Len(fields) : removeField(fields[i].id)
  \/ \E t \in { sEmpty, sHi } : TypeTitle(t)
  \/ handleSubmit
  \/ \E r \in requests : \E ok \in BOOLEAN : BuilderSubmitDone(r, ok)

SpecBuilder == Init /\ [][NextBuilder]_vars

NamesDistinct(fs) ==
  \A i, j \in 1..Len(fs) : i # j => fs[i].name # fs[j].name

\* C11 as stated: after any sequence of addField and removeField the names of
\* the fields on the list are pairwise distinct, and so are the names of the
\* fields of every schema handleSubmit posts.
C11_FieldNamesUnique ==
  /\ NamesDistinct(fields)
  /\ \A r \in requests : r.fn = "handleSubmit" => NamesDistinct(r.fields)

(***************************************************************************)
(* Speech capture: one activation of handleMic (checked under Spec)        *)
(***************************************************************************)

\* C12 as stated: a capture session that has ended has emitted exactly one
\* outcome, a transcript or an explicit signal; never none.
C12_ExactlyOneOutcome ==
  ev.op = "RecEnd" => ev.out # "none"

\* C13 as stated: the transcript a session emits is made of the qualifying
\* events only; an event whose text is shorter than the minimum length
\* (whatever minimum of at least one character is chosen) is not accepted, so
\* no utterance is emitted and nothing is sent for it.
C13_TranscriptOfQualifyingEvents ==
  ev.op = "RecResult" => (Len(ev.text) >= 1 \/ ev.sent = { })

\* C14 as stated: a session in which only low-confidence interim hypotheses
\* arrived ends with the outcome "noise only".
C14_NoiseOnlyReported ==
  (ev.op = "RecEnd" /\ ev.heard = "noise") => ev.out = "noise-only"

\* C15 as stated: a session in which no event at all arrived ends with the
\* outcome "no speech".
C15_NoSpeechReported ==
  (ev.op = "RecEnd" /\ ev.heard = "nothing") => ev.out = "no-speech"

\* the steps the client itself schedules: a timer that is set runs
SpecTimed == Spec /\ WF_vars(\E t \in timers : TimerFires(t))

\* C16 as stated: every capture session eventually stops listening.
C16_SessionEventuallyStops == CaptureActive ~> ~CaptureActive

\* C17: the advisory text shown for a recognition error is the one of its
\* kind, and it differs from the text of each of the other kinds.
C17_ErrorTextsDiffer ==
  ev.op = "RecError" =>
    /\ messages # << >>
    /\ messages[Len(messages)] = SpeechErrorText(ev.kind)
    /\ \A k1, k2 \in ErrorKinds :
         k1 # k2 => SpeechErrorText(k1) # SpeechErrorText(k2)
    /\ \A k \in ErrorKinds \ { ev.kind } :
         messages[Len(messages)] # SpeechErrorText(k)

\* the recognizer reported that nothing was heard, in a conversation that
\* already had a message
C17_Witness ==
  /\ ev.op = "RecError"
  /\ ev.kind = "no-speech"
  /\ Len(messages) >= 2
  /\ status = "error"

(***************************************************************************)
(* Stops, status and stale answers (checked under Spec)                    *)
(***************************************************************************)

\* C18 as stated, for the handles that carry an identity: a status-reset or
\* auto-listen timer or an 'ended' listener that runs was created after the
\* last form or mode switch, and after every reset that is under way.
C18_NoHandleFiresAfterStop ==
  ev.op = "HandleFired" =>
    /\ ev.id > sessionId
    /\ \A r \in requests : r.fn = "handleReset" => ev.id > r.id

\* C19 as stated: whenever a chat-turn request is in flight, the status is
\* "waiting...".
C19_WaitingWhileInFlight ==
  ChatTurnsInFlight # { } => status = "waiting..."

\* C20 as stated, for the clearing done by handleFormSelected and
\* switchToLegacyMode: the answer to a chat request sent before the last
\* switch adds no message, no session status and no field value.
C20_StaleAnswerAddsNothing ==
  (ev.op \in { "LegacyChatOk", "DynamicChatOk" } /\ ev.id < sessionId) =>
    /\ messages = ev.messages
    /\ legacyFormData = ev.legacyFormData
    /\ formData = ev.formData
    /\ sessionStatus = ev.sessionStatus

(***************************************************************************)
(* The frame of the legacy merge (checked under SpecMerge)                 *)
(***************************************************************************)

\* the payload of the last answer names no key of field f
Unnamed(f) == ReportedValues(f) = { }

PayloadMerged ==
  Truthy(ev.data.updates) /\ TypeOf(ev.data.updates) = "object"

ReplyFinishes ==
  \/ utterances # << >> /\ utterances' = Tail(utterances)
  \/ \E a \in audios : a.phase = "playing" /\ a \notin audios'

\* the auto-listen timers the step taken sets
AutoListenSet == { t \in timers' \ timers : t.kind = "autoListen" }

\* C22 as stated: every step in which an agent reply finishes being spoken
\* schedules handleMic exactly once, whether the reply was played as WAV,
\* spoken after a playback failure, or spoken because it carried no audio.
C22_AutoListenAfterEveryReply ==
  [][ReplyFinishes => Cardinality(AutoListenSet) = 1]_vars

(***************************************************************************)
(* The recording client: the Record and Stop buttons over MediaRecorder    *)
(* (checked under SpecRec)                                                 *)
(***************************************************************************)

\* every handler of the recording client leaves the React client alone
RecFrame ==
  UNCHANGED << appVars, timers, audios, utterances, recognizers, quiet,
               builderVars, managerVars >>

\* click on Record, up to the await of getUserMedia; a disabled button
\* fires no click, and the handler returns at once while recording
ClickRecord ==
  /\ ~btnRecDisabled
  /\ ~recording
  /\ HasIds(1)
  /\ micGrants' = micGrants \cup { nextId }
  /\ nextId' = nextId + 1
  /\ UNCHANGED << recording, recorder, btnRecDisabled, mediaRecorders,
                  requests >>
  /\ RecFrame
  /\ ev' = Ev("-")

\* getUserMedia resolved with a stream: the rest of the Record handler
MicGranted(g) ==
  /\ g \in micGrants
  /\ micGrants' = micGrants \ { g }
  /\ mediaRecorders' = mediaRecorders \cup
       { [id |-> g, state |-> "recording", live |-> TRUE] }
  /\ recorder' = g
  /\ recording' = TRUE
  /\ btnRecDisabled' = TRUE
  /\ UNCHANGED << requests, nextId >>
  /\ RecFrame
  /\ ev' = Ev("-")

\* getUserMedia rejected: the catch of the Record handler, an alert
MicDenied(g) ==
  /\ g \in micGrants
  /\ micGrants' = micGrants \ { g }
  /\ UNCHANGED << recording, recorder, btnRecDisabled, mediaRecorders,
                  requests, nextId >>
  /\ RecFrame
  /\ ev' = Ev("-")

\* click on Stop: recorder.stop() and the tracks of recorder.stream stopped,
\* for the recorder the variable holds
ClickStop ==
  /\ recording
  /\ recorder # 0
  /\ mediaRecorders' =
       { IF m.id = recorder
         THEN [m EXCEPT !.state = "inactive", !.live = FALSE]
         ELSE m : m \in mediaRecorders }
  /\ recording' = FALSE
  /\ btnRecDisabled' = FALSE
  /\ UNCHANGED << recorder, micGrants, requests, nextId >>
  /\ RecFrame
  /\ ev' = [op |-> "ClickStop"]

\* recorder.onstop of a stopped recorder: sendAudio up to the await of its
\* upload to /v1/stt
RecorderStopped(m) ==
  /\ m \in mediaRecorders
  /\ m.state = "inactive"
  /\ mediaRecorders' = mediaRecorders \ { m }
  /\ requests' = requests \cup { [id |-> m.id, fn |-> "sendAudio", url |-> "/v1/stt"] }
  /\ UNCHANGED << recording, recorder, btnRecDisabled, micGrants, nextId >>
  /\ RecFrame
  /\ ev' = Ev("-")

\* the upload answered or failed: the transcript or the error is shown
SendAudioDone(r) ==
  /\ r \in requests
  /\ r.fn = "sendAudio"
  /\ requests' = requests \ { r }
  /\ UNCHANGED << recVars, nextId >>
  /\ RecFrame
  /\ ev' = Ev("-")

NextRec ==
  \/ ClickRecord
  \/ \E g \in micGrants : MicGranted(g)
  \/ \E g \in micGrants : MicDenied(g)
  \/ ClickStop
  \/ \E m \in mediaRecorders : RecorderStopped(m)
  \/ \E r \in requests : SendAudioDone(r)

SpecRec == Init /\ [][NextRec]_vars

\* the recorders that are recording, and the streams that are open
ActiveRecorders == { m \in mediaRecorders : m.state = "recording" }
OpenStreams == { m \in mediaRecorders : m.live }

\* C23 as stated: at most one recorder and one stream is active at any time,
\* and a Stop click leaves no stream open that was opened before it.
C23_OneRecorderOneStream ==
  /\ Cardinality(ActiveRecorders) <= 1
  /\ Cardinality(OpenStreams) <= 1
  /\ ev.op = "ClickStop" => OpenStreams = { }

(***************************************************************************)
(* FormManager: the list of forms under create and delete (checked under   *)
(* SpecManager)                                                            *)
(***************************************************************************)

\* every handler of FormManager leaves the clients and the builder alone
ManagerFrame ==
  UNCHANGED << appVars, timers, audios, utterances, recognizers, quiet,
               recVars, builderVars >>

\* data.forms of GET /forms: the backend's forms as a list
RECURSIVE ListOf(_)
ListOf(S) ==
  IF S = { } THEN << >>
  ELSE LET x == CHOOSE y \in S : TRUE IN << x >> \o ListOf(S \ { x })

Listed(fs) == { fs[i] : i \in 1..Len(fs) }

\* the fetch of a handler of FormManager, with the forms its closure holds
ManagerRequest(fn, arg) ==
  [id |-> nextId, fn |-> fn, arg |-> arg, forms |-> forms]

\* FormManager mounted: its effect has called loadForms
InitMounted ==
  /\ InitApp /\ InitBuilder /\ InitManager /\ InitRec
  /\ requests = { [id |-> 0, fn |-> "loadForms", arg |-> "-", forms |-> << >>] }
  /\ timers = { }
  /\ audios = { }
  /\ utterances = << >>
  /\ recognizers = { }
  /\ nextId = 1
  /\ ev = Ev("init")
  /\ quiet = FALSE

\* loadForms after its await: setForms(data.forms || []) on response.ok;
\* finally setLoading(false)
LoadFormsDone(r, ok) ==
  /\ r \in requests
  /\ r.fn = "loadForms"
  /\ requests' = requests \ { r }
  /\ forms' = IF ok THEN ListOf(backendForms) ELSE forms
  /\ loading' = FALSE
  /\ UNCHANGED << showFormBuilder, activeTab, backendForms, nextId >>
  /\ ManagerFrame
  /\ ev' = Ev("-")

\* the tab buttons: setActiveTab
SetActiveTab(tab) ==
  /\ ~showFormBuilder
  /\ activeTab # tab
  /\ activeTab' = tab
  /\ UNCHANGED << forms, loading, showFormBuilder, backendForms, requests,
                  nextId >>
  /\ ManagerFrame
  /\ ev' = Ev("-")

\* deleteForm(formId), the confirm accepted, up to its await of the fetch;
\* the Delete button belongs to a form of the list shown
ClickDelete(formId) ==
  /\ ~showFormBuilder
  /\ activeTab = "forms"
  /\ ~loading
  /\ formId \in Listed(forms)
  /\ HasIds(1)
  /\ requests' = requests \cup { ManagerRequest("deleteForm", formId) }
  /\ nextId' = nextId + 1
  /\ UNCHANGED managerVars
  /\ ManagerFrame
  /\ ev' = Ev("-")

\* deleteForm after its await, the backend having deleted the form:
\* setForms(forms.filter(form => form.id !== formId))
DeleteOk(r) ==
  /\ r \in requests
  /\ r.fn = "deleteForm"
  /\ r.arg \in backendForms
  /\ requests' = requests \ { r }
  /\ backendForms' = backendForms \ { r.arg }
  /\ forms' = SelectSeq(r.forms, LAMBDA form : form # r.arg)
  /\ UNCHANGED << loading, showFormBuilder, activeTab, nextId >>
  /\ ManagerFrame
  /\ ev' = Ev("-")

\* deleteForm after its await, the answer not OK or the fetch rejected
DeleteFailed(r) ==
  /\ r \in requests
  /\ r.fn = "deleteForm"
  /\ requests' = requests \ { r }
  /\ UNCHANGED << managerVars, nextId >>
  /\ ManagerFrame
  /\ ev' = Ev("-")

\* "Use Template", the prompt answered: createFromTemplate up to its await
ClickTemplate ==
  /\ ~showFormBuilder
  /\ activeTab = "templates"
  /\ HasIds(1)
  /\ requests' = requests \cup { ManagerRequest("createFromTemplate", "-") }
  /\ nextId' = nextId + 1
  /\ UNCHANGED managerVars
  /\ ManagerFrame
  /\ ev' = Ev("-")

\* createFromTemplate after its await, the backend having created the form:
\* setForms([data.form, ...forms]); setActiveTab('forms')
TemplateOk(r) ==
  /\ r \in requests
  /\ r.fn = "createFromTemplate"
  /\ requests' = requests \ { r }
  /\ backendForms' = backendForms \cup { FormOf(r) }
  /\ forms' = << FormOf(r) >> \o r.forms
  /\ activeTab' = "forms"
  /\ UNCHANGED << loading, showFormBuilder, nextId >>
  /\ ManagerFrame
  /\ ev' = Ev("-")

\* createFromTemplate after its await, the answer not OK or the fetch
\* rejected
TemplateFailed(r) ==
  /\ r \in requests
  /\ r.fn = "createFromTemplate"
  /\ requests' = requests \ { r }
  /\ UNCHANGED << managerVars, nextId >>
  /\ ManagerFrame
  /\ ev' = Ev("-")

\* the builder is filled in with one title and one field
NextManager ==
  \/ \E r \in requests : \E ok \in BOOLEAN : LoadFormsDone(r, ok)
  \/ \E tab \in { "forms", "templates" } : SetActiveTab(tab)
  \/ \E formId \in Listed(forms) : ClickDelete(formId)
  \/ \E r \in requests : DeleteOk(r)
  \/ \E r \in requests : DeleteFailed(r)
  \/ ClickTemplate
  \/ \E r \in requests : TemplateOk(r)
  \/ \E r \in requests : TemplateFailed(r)
  \/ ShowFormBuilder
  \/ CloseBuilder
  \/ TypeTitle(sHi)
  \/ addField("short_answer", 1)
  \/ handleSubmit
  \/ \E r \in requests : \E ok \in BOOLEAN : BuilderSubmitDone(r, ok)

SpecManager == InitMounted /\ [][NextManager]_vars

\* the forms created since the manager was mounted
CreatedForms == backendForms \ Forms

\* C24 as stated: once every request of the manager has been answered, the
\* list holds every form created and still stored by the backend, and no
\* form the backend has deleted.
C24_ListAgreesWithBackend ==
  requests = { } =>
    /\ CreatedForms \subseteq Listed(forms)
    /\ Listed(forms) \subseteq backendForms

(***************************************************************************)
(* The pending audio (checked under Spec)                                  *)
(***************************************************************************)

\* in the step taken, audio.play() of an element is rejected / resolves
PlayIsRejected ==
  \E a \in audios : a.phase = "starting" /\ audios' = audios \ { a }

PlayIsResolved ==
  \E a \in audios :
    /\ a.phase = "starting"
    /\ audios' = (audios \ { a }) \cup { [a EXCEPT !.phase = "playing"] }

\* C25 as stated: every rejected attempt to play a WAV reply, the retry made
\* by handleAudioEnable included, leaves the audio pending, and every
\* successful one leaves no audio pending.
C25_PendingIffLastPlayRejected ==
  [][ /\ PlayIsRejected => pendingAudio' # Null
      /\ PlayIsResolved => pendingAudio' = Null ]_vars

(***************************************************************************)
(* Reset and conversation start (checked under Spec)                       *)
(***************************************************************************)

\* the step taken ends a reset that did not succeed: the fetch rejected, or
\* the backend answered with a status that is not OK
ResetDidNotSucceed ==
  ev'.op = "ResetFailed" \/ (ev'.op = "ResetResolved" /\ ~ev'.ok)

\* C26 as stated: a reset that does not succeed leaves the messages, the
\* pending audio, the form data and the session status as they were and
\* sends no request.
C26_FailedResetChangesNothing ==
  [][ ResetDidNotSucceed =>
        /\ messages' = messages
        /\ pendingAudio' = pendingAudio
        /\ legacyFormData' = legacyFormData
        /\ formData' = formData
        /\ sessionStatus' = sessionStatus
        /\ requests' \subseteq requests ]_vars

\* the requests of kind fn that the step taken sends
Sent(fn) == { r \in requests' \ requests : r.fn = fn }

\* C27: a reset request of the conversation start is sent only by the first
\* run of the effect, one request, and never again, whatever the mode; the
\* opening chat request of the conversation start is sent in the step that
\* handles the completed reset, one request, for the session of that reset.
C27_StartsOnceResetFirst ==
  [][ /\ Sent("startConversation") # { } =>
           /\ ~initialized
           /\ Cardinality(Sent("startConversation")) = 1
      /\ initialized => initialized'
      /\ ev'.op = "StartConversation" =>
           \E r \in requests :
             /\ r.fn = "startConversation"
             /\ r \notin requests'
             /\ Cardinality(requests' \ requests) <= 1
             /\ \A c \in requests' \ requests :
                  c.fn = "legacyBackendChat" /\ c.sid = r.sid /\ c.msg = sEmpty
             /\ (r.env.legacy => requests' \ requests # { }) ]_vars

\* the reset of the conversation start completed after the user had switched
\* to a dynamic form: the effect ran again at the switch, no second reset
\* was sent, and the opening chat request has now been sent
C27_Witness ==
  /\ ev.op = "StartConversation"
  /\ initialized
  /\ ~isLegacyMode
  /\ \A r \in requests : r.fn # "startConversation"
  /\ \E c \in requests : c.fn = "legacyBackendChat" /\ c.msg = sEmpty

====
